---- MODULE Spec2Model ----
(***************************************************************************)
(* Model of neuraxle/steps/caching.py: ValueCachingWrapper and its pickle  *)
(* realisation PickleValueCachingWrapper.  The state is the wrapper's      *)
(* fields (checkpoint_path, wrapped), the checkpoint directory on disk     *)
(* (one file of pickle bytes per hashed data input), and the position of   *)
(* the handler that is running (handle_fit_transform or handle_transform). *)
(***************************************************************************)
EXTENDS Integers, Sequences, FiniteSets, TLC

(***************************************************************************)
(* Bounds of the model.                                                    *)
(***************************************************************************)
MaxItem == 2
MaxBatch == 3
MaxUnit == 1

Items == 1..MaxItem
Units == 0..MaxUnit
Batches == UNION {[1..n -> Items] : n \in 0..MaxBatch}

(***************************************************************************)
(* Collaborators that live outside caching.py.                             *)
(***************************************************************************)
\* Md5Hasher.hash: a digest of the data input, injective on Items.
Md5Hasher(data_input) == 100 + data_input

\* wrapped.transform([data_input]): a list holding one output.  Unit 0
\* doubles its input; a unit fitted differently multiplies differently.
Transform(unit, data_input) == <<(unit + 2) * data_input>>

\* BaseStep.hash(current_ids, hyperparams, outputs): new ids from the prior
\* ids and the whole output collection.
RECURSIVE SumSeq(_)
SumSeq(s) == IF s = <<>> THEN 0 ELSE Head(s) + SumSeq(Tail(s))

hash(current_ids, outs) ==
    [k \in DOMAIN current_ids |-> 1000 + 10 * current_ids[k] + (SumSeq(outs) % 10)]

\* The data container the pipeline hands to a handler for a batch.
DataContainer(batch) ==
    [data_inputs |-> batch,
     current_ids |-> [k \in DOMAIN batch |-> k],
     expected_outputs |-> [k \in DOMAIN batch |-> 50 + batch[k]]]

NoContainer == [data_inputs |-> <<>>, current_ids |-> <<>>, expected_outputs |-> <<>>]

(***************************************************************************)
(* pickle: dump writes PROTO, the length of the list, its elements and     *)
(* STOP; load accepts exactly such a byte sequence.                        *)
(***************************************************************************)
PROTO == 128
STOP == 46

pickle_dump(output) == <<PROTO, Len(output)>> \o output \o <<STOP>>

Loadable(bytes) ==
    /\ Len(bytes) >= 3
    /\ bytes[1] = PROTO
    /\ bytes[Len(bytes)] = STOP
    /\ bytes[2] = Len(bytes) - 3

pickle_load(bytes) == SubSeq(bytes, 3, Len(bytes) - 1)

Prefix(bytes, n) == SubSeq(bytes, 1, n)

\* Where a failing dump can stop: after any number of bytes short of all,
\* from none (open(..., 'wb') has just truncated the file) on.
CrashPoints(bytes) == 0..(Len(bytes) - 1)

(***************************************************************************)
(* State.                                                                  *)
(***************************************************************************)
VARIABLES
    checkpoint_path,  \* self.checkpoint_path, NoPath until setup
    dir_exists,       \* the checkpoint directory exists on disk
    files,            \* path -> bytes, the files of the directory
    wrapped,          \* self.wrapped
    pc,               \* position of the running handler
    op,               \* the handler or method that runs or ran last
    batch,            \* the data inputs the running call was given
    data_container,   \* the container of the running call
    idx,              \* position of the per-item loop
    outputs,          \* the loop's outputs list
    error,            \* the exception that ended the call, "" for none
    ret,              \* argument and return value of a cache method call
    invoked,          \* data inputs passed to wrapped.transform in this call
    written,          \* data inputs whose cache file this call wrote
    at_loop,          \* files when the call started, then when its loop started
    flushed,          \* flush_cache has completed in this call
    fitting,          \* self.wrapped when the call started, and what fit returned
    prev              \* the preceding handle_transform on the same batch

vars == <<checkpoint_path, dir_exists, files, wrapped, pc, op, batch, data_container,
          idx, outputs, error, ret, invoked, written, at_loop, flushed, fitting,
          prev>>

disk == <<dir_exists, files>>
frame == <<op, batch, data_container>>
locals == <<idx, outputs>>
ghosts == <<invoked, written, at_loop, flushed, fitting>>

NoPath == <<>>
StepPaths == {"step"}
NoFiles == <<>>
NoFitting == [before |-> 0, returned |-> 0, done |-> FALSE]
NoPrev == [set |-> FALSE, outputs |-> <<>>]
NoRet == [data_input |-> 0, output |-> <<>>, value |-> <<>>, found |-> FALSE,
          before |-> <<>>, path |-> <<>>, path_before |-> <<>>]

(***************************************************************************)
(* The cache on disk (PickleValueCachingWrapper).                          *)
(***************************************************************************)
DEFAULT_CACHE_FOLDER == "cache"
VALUE_CACHING == "value_caching"

\* os.path.join(self.cache_folder, step_path, VALUE_CACHING)
create_checkpoint_path(step_path) == <<DEFAULT_CACHE_FOLDER, step_path, VALUE_CACHING>>

\* A mkdir that is left out.
mkdir_left_out(exists) == exists

\* os.makedirs / os.mkdir: the directory exists afterwards.
mkdir(exists) == TRUE

hash_value(x) == Md5Hasher(x)

\* A path that leaves the hash out of the file name.
get_cache_path_for_unhashed(path, x) == Append(path, 0)

\* os.path.join(self.checkpoint_path, '{0}.pickle'.format(hash_value))
get_cache_path_for(path, x) == Append(path, hash_value(x))

\* A lookup that never finds the file.
contains_cache_for_never(path, exists, fs, x) == FALSE

\* os.path.exists(self.get_cache_path_for(data_input))
contains_cache_for(path, exists, fs, x) ==
    exists /\ get_cache_path_for(path, x) \in DOMAIN fs

\* A read that answers an unreadable file with an empty default.
read_cache_default(path, fs, x) ==
    LET bytes == fs[get_cache_path_for(path, x)]
    IN  [status |-> "", value |-> IF Loadable(bytes) THEN pickle_load(bytes) ELSE <<0>>]

\* open(path, 'rb') and pickle.load: the value, or the error load raises.
read_cache(path, fs, x) ==
    LET bytes == fs[get_cache_path_for(path, x)]
    IN  IF Loadable(bytes)
        THEN [status |-> "", value |-> pickle_load(bytes)]
        ELSE [status |-> "UnpicklingError", value |-> <<>>]

\* A write that leaves a file that exists as it is.
WriteFile_keeps(fs, name, bytes) ==
    [p \in DOMAIN fs \cup {name} |-> IF p \in DOMAIN fs THEN fs[p] ELSE bytes]

\* The files after open(name, 'wb') and a write of the bytes.
WriteFile(fs, name, bytes) ==
    [p \in DOMAIN fs \cup {name} |-> IF p = name THEN bytes ELSE fs[p]]

\* write_cache that names the file after the output instead of the input.
write_cache_by_output(path, fs, x, output) ==
    WriteFile(fs, get_cache_path_for(path, output[1]), pickle_dump(output))

\* open(path, 'wb') and a pickle.dump that runs to its end.
write_cache(path, fs, x, output) ==
    WriteFile(fs, get_cache_path_for(path, x), pickle_dump(output))

\* open(path, 'wb') and a pickle.dump that raises after n bytes.
write_cache_raises(path, fs, x, output, n) ==
    WriteFile(fs, get_cache_path_for(path, x), Prefix(pickle_dump(output), n))

\* An rmtree that removes nothing.
rmtree_keeps(fs) == fs

\* shutil.rmtree(self.checkpoint_path): every file of the directory is gone.
rmtree(fs) == NoFiles

\* What flush_cache raises: self.checkpoint_path is no attribute before
\* setup, and shutil.rmtree raises on a directory that does not exist.
flush_cache_error(path, exists) ==
    IF path = NoPath THEN "AttributeError"
    ELSE IF ~exists THEN "FileNotFoundError"
    ELSE ""

(***************************************************************************)
(* The disk a wrapper can find when it is constructed: no directory, or    *)
(* the directory with complete files left by an earlier run of some unit.  *)
(***************************************************************************)
Absent == <<>>
LeftOver(x) == {Absent} \cup {pickle_dump(Transform(u, x)) : u \in Units}
CacheOf(path, c) ==
    LET present == {x \in Items : c[x] # Absent}
        names == {get_cache_path_for(path, x) : x \in present}
    IN  [p \in names |-> c[CHOOSE x \in present : get_cache_path_for(path, x) = p]]
InitialCaches ==
    UNION {{CacheOf(create_checkpoint_path(sp), c) :
                c \in {c \in [Items -> UNION {LeftOver(x) : x \in Items}] :
                          \A x \in Items : c[x] \in LeftOver(x)}} : sp \in StepPaths}

\* No call is running: the locals of the last call are gone.
Idle ==
    /\ pc = "idle"
    /\ op = "none"
    /\ batch = <<>>
    /\ data_container = NoContainer
    /\ idx = 0
    /\ outputs = <<>>
    /\ error = ""
    /\ ret = NoRet
    /\ invoked = <<>>
    /\ written = <<>>
    /\ at_loop = NoFiles
    /\ flushed = FALSE
    /\ fitting = NoFitting
    /\ prev = NoPrev

Init ==
    /\ checkpoint_path = NoPath
    /\ dir_exists \in BOOLEAN
    /\ files \in (IF dir_exists THEN InitialCaches ELSE {NoFiles})
    /\ wrapped \in Units
    /\ Idle

(***************************************************************************)
(* setup: create_checkpoint_path sets the path and makes the directory     *)
(* when it does not exist.                                                 *)
(***************************************************************************)
setup(step_path) ==
    /\ pc = "idle"
    /\ checkpoint_path' = create_checkpoint_path(step_path)
    /\ dir_exists' = (IF dir_exists THEN dir_exists ELSE mkdir(dir_exists))
    /\ UNCHANGED <<files, wrapped, pc, frame, locals, error, ret, ghosts, prev>>

\* Someone outside the program removes the checkpoint directory while no
\* call runs.
directory_removed ==
    /\ pc = "idle"
    /\ dir_exists
    /\ dir_exists' = FALSE
    /\ files' = NoFiles
    /\ UNCHANGED <<checkpoint_path, wrapped, pc, frame, locals, error, ret, ghosts, prev>>

(***************************************************************************)
(* The handlers.                                                           *)
(***************************************************************************)
\* A handler is called with the data container of a batch.
Enter(handler, b, first) ==
    /\ pc' = first
    /\ op' = handler
    /\ batch' = b
    /\ data_container' = DataContainer(b)
    /\ idx' = 1
    /\ outputs' = <<>>
    /\ error' = ""
    /\ invoked' = <<>>
    /\ written' = <<>>
    /\ at_loop' = files
    /\ flushed' = FALSE
    /\ fitting' = [before |-> wrapped, returned |-> wrapped, done |-> FALSE]
    /\ UNCHANGED <<checkpoint_path, disk, wrapped, ret>>

\* An exception that is swallowed: the statement that raised runs again.
Raise_retries(e) ==
    /\ pc' = pc
    /\ error' = e

\* An exception leaves the handler: the container is as it was.
Raise(e) ==
    /\ pc' = "raise"
    /\ error' = e

\* A transform that starts like handle_fit_transform, at the flush.
handle_transform_flushes(b) ==
    /\ pc = "idle"
    /\ Enter("handle_transform", b, "flush")
    /\ prev' = NoPrev

handle_transform(b) ==
    /\ pc = "idle"
    /\ Enter("handle_transform", b, "loop")
    /\ prev' = NoPrev

\* handle_transform is called once more on the batch it has just returned
\* the outputs of.
handle_transform_again ==
    /\ pc = "return"
    /\ op = "handle_transform"
    /\ Enter("handle_transform", batch, "loop")
    /\ prev' = [set |-> TRUE, outputs |-> outputs]

\* A fit_transform that starts at the fit, with no flush before it.
handle_fit_transform_no_flush(b) ==
    /\ pc = "idle"
    /\ Enter("handle_fit_transform", b, "fit")
    /\ prev' = NoPrev

handle_fit_transform(b) ==
    /\ pc = "idle"
    /\ Enter("handle_fit_transform", b, "flush")
    /\ prev' = NoPrev

\* self.flush_cache(): shutil.rmtree, then os.mkdir.
flush_cache ==
    /\ pc = "flush"
    /\ LET e == flush_cache_error(checkpoint_path, dir_exists)
       IN  IF e # ""
           THEN Raise(e) /\ UNCHANGED <<disk, flushed>>
           ELSE /\ files' = rmtree(files)
                /\ dir_exists' = mkdir(FALSE)
                /\ flushed' = TRUE
                /\ pc' = "fit"
                /\ UNCHANGED error
    /\ UNCHANGED <<checkpoint_path, wrapped, frame, locals, ret, invoked, written,
                   at_loop, fitting, prev>>

\* A fit whose result is dropped: self.wrapped stays the old unit.
fit_in_place(unit) ==
    /\ pc = "fit"
    /\ wrapped' = wrapped
    /\ pc' = "loop"
    /\ at_loop' = files
    /\ fitting' = [fitting EXCEPT !.returned = unit, !.done = TRUE]
    /\ UNCHANGED <<checkpoint_path, disk, frame, locals, error, ret, invoked, written,
                   flushed, prev>>

\* self.wrapped = self.wrapped.fit(data_inputs, expected_outputs)
fit(unit) ==
    /\ pc = "fit"
    /\ wrapped' = unit
    /\ pc' = "loop"
    /\ at_loop' = files
    /\ fitting' = [fitting EXCEPT !.returned = unit, !.done = TRUE]
    /\ UNCHANGED <<checkpoint_path, disk, frame, locals, error, ret, invoked, written,
                   flushed, prev>>

\* wrapped.fit raises.
fit_raises ==
    /\ pc = "fit"
    /\ Raise("FitError")
    /\ UNCHANGED <<checkpoint_path, disk, wrapped, frame, locals, ret, ghosts, prev>>

(***************************************************************************)
(* _transform_with_cache: one step per data input of the container.        *)
(***************************************************************************)
InLoop == pc = "loop" /\ idx <= Len(data_container.data_inputs)
LoopOver == pc = "loop" /\ idx > Len(data_container.data_inputs)
data_input == data_container.data_inputs[idx]

\* An extend that puts the new output first.
extend_front(outs, output) == output \o outs

\* outputs.extend(output)
extend(outs, output) == outs \o output

\* get_cache_path_for reads self.checkpoint_path, which setup never set.
loop_no_path ==
    /\ InLoop
    /\ checkpoint_path = NoPath
    /\ Raise("AttributeError")
    /\ UNCHANGED <<checkpoint_path, disk, wrapped, frame, locals, ret, ghosts, prev>>

\* A hit that also writes the entry again with the output of the unit.
loop_hit_refreshes ==
    /\ InLoop
    /\ checkpoint_path # NoPath
    /\ contains_cache_for(checkpoint_path, dir_exists, files, data_input)
    /\ LET got == read_cache(checkpoint_path, files, data_input)
       IN  IF got.status = ""
           THEN /\ outputs' = extend(outputs, got.value)
                /\ idx' = idx + 1
                /\ files' = write_cache(checkpoint_path, files, data_input,
                                        Transform(wrapped, data_input))
                /\ UNCHANGED <<pc, error, dir_exists>>
           ELSE Raise(got.status) /\ UNCHANGED <<locals, disk>>
    /\ UNCHANGED <<checkpoint_path, wrapped, frame, ret, ghosts, prev>>

\* contains_cache_for is true: outputs.extend(self.read_cache(data_input))
loop_hit ==
    /\ InLoop
    /\ checkpoint_path # NoPath
    /\ contains_cache_for(checkpoint_path, dir_exists, files, data_input)
    /\ LET got == read_cache(checkpoint_path, files, data_input)
       IN  IF got.status = ""
           THEN /\ outputs' = extend(outputs, got.value)
                /\ idx' = idx + 1
                /\ UNCHANGED <<pc, error>>
           ELSE Raise(got.status) /\ UNCHANGED locals
    /\ UNCHANGED <<checkpoint_path, disk, wrapped, frame, ret, ghosts, prev>>

\* A miss that hands the unit the rest of the batch and keeps the first
\* output.
loop_miss_whole_batch ==
    /\ InLoop
    /\ checkpoint_path # NoPath
    /\ ~contains_cache_for(checkpoint_path, dir_exists, files, data_input)
    /\ LET output == Transform(wrapped, data_input)
       IN  /\ invoked' = invoked \o SubSeq(batch, idx, Len(batch))
           /\ IF dir_exists
              THEN /\ files' = write_cache(checkpoint_path, files, data_input, output)
                   /\ written' = Append(written, data_input)
                   /\ outputs' = extend(outputs, output)
                   /\ idx' = idx + 1
                   /\ UNCHANGED <<pc, error>>
              ELSE /\ Raise("FileNotFoundError")
                   /\ UNCHANGED <<files, written, locals>>
    /\ UNCHANGED <<checkpoint_path, dir_exists, wrapped, frame, ret, at_loop, flushed,
                   fitting, prev>>

\* contains_cache_for is false: transform the one data input, write the
\* cache, extend the outputs.  Without the directory open(..., 'wb') raises.
loop_miss ==
    /\ InLoop
    /\ checkpoint_path # NoPath
    /\ ~contains_cache_for(checkpoint_path, dir_exists, files, data_input)
    /\ LET output == Transform(wrapped, data_input)
       IN  /\ invoked' = Append(invoked, data_input)
           /\ IF dir_exists
              THEN /\ files' = write_cache(checkpoint_path, files, data_input, output)
                   /\ written' = Append(written, data_input)
                   /\ outputs' = extend(outputs, output)
                   /\ idx' = idx + 1
                   /\ UNCHANGED <<pc, error>>
              ELSE /\ Raise("FileNotFoundError")
                   /\ UNCHANGED <<files, written, locals>>
    /\ UNCHANGED <<checkpoint_path, dir_exists, wrapped, frame, ret, at_loop, flushed,
                   fitting, prev>>

\* The miss whose pickle.dump raises: open(..., 'wb') has made the file and
\* n bytes of the dump are in it.
loop_miss_write_raises ==
    /\ InLoop
    /\ checkpoint_path # NoPath
    /\ dir_exists
    /\ ~contains_cache_for(checkpoint_path, dir_exists, files, data_input)
    /\ LET output == Transform(wrapped, data_input)
       IN  /\ invoked' = Append(invoked, data_input)
           /\ \E n \in CrashPoints(pickle_dump(output)) :
                 files' = write_cache_raises(checkpoint_path, files, data_input, output, n)
    /\ Raise("WriteError")
    /\ UNCHANGED <<checkpoint_path, dir_exists, wrapped, frame, locals, ret,
                   written, at_loop, flushed, fitting, prev>>

\* A return that also puts the outputs in place of the expected outputs.
set_outputs_all ==
    /\ LoopOver
    /\ data_container' =
          [data_inputs |-> outputs,
           current_ids |-> hash(data_container.current_ids, outputs),
           expected_outputs |-> outputs]
    /\ pc' = "return"
    /\ UNCHANGED <<checkpoint_path, disk, wrapped, op, batch, locals, error, ret, ghosts, prev>>

\* The loop is over: set_data_inputs(outputs), set_current_ids(hash(...)).
set_outputs ==
    /\ LoopOver
    /\ data_container' =
          [data_container EXCEPT !.data_inputs = outputs,
                                 !.current_ids = hash(data_container.current_ids, outputs)]
    /\ pc' = "return"
    /\ UNCHANGED <<checkpoint_path, disk, wrapped, op, batch, locals, error, ret, ghosts, prev>>

\* The handler returns or its exception reaches the caller: the call is over.
leave ==
    /\ pc \in {"return", "raise"}
    /\ pc' = "idle"
    /\ op' = "none"
    /\ batch' = <<>>
    /\ data_container' = NoContainer
    /\ idx' = 0
    /\ outputs' = <<>>
    /\ error' = ""
    /\ ret' = NoRet
    /\ invoked' = <<>>
    /\ written' = <<>>
    /\ at_loop' = NoFiles
    /\ flushed' = FALSE
    /\ fitting' = NoFitting
    /\ prev' = NoPrev
    /\ UNCHANGED <<checkpoint_path, disk, wrapped>>

Next ==
    \/ \E step_path \in StepPaths : setup(step_path)
    \/ directory_removed
    \/ \E b \in Batches : handle_transform(b)
    \/ handle_transform_again
    \/ \E b \in Batches : handle_fit_transform(b)
    \/ flush_cache
    \/ \E unit \in Units : fit(unit)
    \/ fit_raises
    \/ loop_no_path
    \/ loop_hit
    \/ loop_miss
    \/ loop_miss_write_raises
    \/ set_outputs
    \/ leave

Spec == Init /\ [][Next]_vars

(***************************************************************************)
(* The cache methods called on their own, as the contract of the cache:    *)
(* each is one call on the wrapper while no handler runs, and the caller   *)
(* sees what it returned or raised before the next call.                   *)
(***************************************************************************)
\* The outputs a caller can pass to write_cache.
Outputs == {Transform(u, x) : u \in Units, x \in Items}

\* What a method that opens the cache file of a data input raises first.
open_error(path, exists, fs, x, mode) ==
    IF path = NoPath THEN "AttributeError"
    ELSE IF ~exists THEN "FileNotFoundError"
    ELSE IF mode = "rb" /\ get_cache_path_for(path, x) \notin DOMAIN fs
    THEN "FileNotFoundError"
    ELSE ""

Called(method, e, r) ==
    /\ pc = "idle"
    /\ pc' = IF e = "" THEN "return" ELSE "raise"
    /\ op' = method
    /\ error' = e
    /\ ret' = r
    /\ UNCHANGED <<checkpoint_path, wrapped, batch, data_container, locals, ghosts, prev>>

\* A create_checkpoint_path that makes the directory anew each time.
call_create_checkpoint_path_anew(step_path) ==
    /\ pc = "idle"
    /\ pc' = "return"
    /\ op' = "create_checkpoint_path"
    /\ checkpoint_path' = create_checkpoint_path(step_path)
    /\ ret' = [NoRet EXCEPT !.before = files,
                            !.path = checkpoint_path',
                            !.path_before = checkpoint_path]
    /\ dir_exists' = mkdir(dir_exists)
    /\ files' = NoFiles
    /\ UNCHANGED <<wrapped, batch, data_container, locals, error, ghosts, prev>>

\* setup(step_path), that is create_checkpoint_path(step_path), as its
\* caller sees it: it returns self.checkpoint_path.
call_create_checkpoint_path(step_path) ==
    /\ pc = "idle"
    /\ pc' = "return"
    /\ op' = "create_checkpoint_path"
    /\ checkpoint_path' = create_checkpoint_path(step_path)
    /\ ret' = [NoRet EXCEPT !.before = files,
                            !.path = checkpoint_path',
                            !.path_before = checkpoint_path]
    /\ dir_exists' = (IF dir_exists THEN dir_exists ELSE mkdir(dir_exists))
    /\ UNCHANGED <<files, wrapped, batch, data_container, locals, error, ghosts, prev>>

call_flush_cache ==
    LET e == flush_cache_error(checkpoint_path, dir_exists)
    IN  /\ Called("flush_cache", e, [NoRet EXCEPT !.before = files])
        /\ IF e # ""
           THEN UNCHANGED disk
           ELSE /\ files' = rmtree(files)
                /\ dir_exists' = mkdir(FALSE)

call_contains_cache_for(x) ==
    LET e == IF checkpoint_path = NoPath THEN "AttributeError" ELSE ""
    IN  /\ Called("contains_cache_for", e,
                  [NoRet EXCEPT !.data_input = x,
                                !.before = files,
                                !.found = IF e = ""
                                          THEN contains_cache_for(checkpoint_path, dir_exists, files, x)
                                          ELSE FALSE])
        /\ UNCHANGED disk

call_read_cache(x) ==
    LET e == open_error(checkpoint_path, dir_exists, files, x, "rb")
        got == IF e = "" THEN read_cache(checkpoint_path, files, x)
               ELSE [status |-> e, value |-> <<>>]
    IN  /\ Called("read_cache", got.status, [NoRet EXCEPT !.data_input = x, !.value = got.value])
        /\ UNCHANGED disk

call_write_cache(x, output) ==
    LET e == open_error(checkpoint_path, dir_exists, files, x, "wb")
    IN  /\ Called("write_cache", e,
                  [NoRet EXCEPT !.data_input = x, !.output = output, !.before = files])
        /\ files' = IF e = "" THEN write_cache(checkpoint_path, files, x, output) ELSE files
        /\ UNCHANGED dir_exists

\* write_cache whose pickle.dump raises with n bytes in the file.
call_write_cache_raises(x, output) ==
    /\ open_error(checkpoint_path, dir_exists, files, x, "wb") = ""
    /\ Called("write_cache", "WriteError",
              [NoRet EXCEPT !.data_input = x, !.output = output, !.before = files])
    /\ \E n \in CrashPoints(pickle_dump(output)) :
          files' = write_cache_raises(checkpoint_path, files, x, output, n)
    /\ UNCHANGED dir_exists

NextCache ==
    \/ \E step_path \in StepPaths : call_create_checkpoint_path(step_path)
    \/ directory_removed
    \/ call_flush_cache
    \/ \E x \in Items : call_contains_cache_for(x)
    \/ \E x \in Items : call_read_cache(x)
    \/ \E x \in Items, output \in Outputs : call_write_cache(x, output)
    \/ \E x \in Items, output \in Outputs : call_write_cache_raises(x, output)
    \/ leave

SpecCache == Init /\ [][NextCache]_vars

(***************************************************************************)
(* Properties.                                                             *)
(***************************************************************************)
PathOf(x) == get_cache_path_for(checkpoint_path, x)
Processed == SubSeq(batch, 1, idx - 1)
Looping == pc \in {"loop", "return"}

\* The data inputs of a sequence, each at its first occurrence only.
RECURSIVE FirstOccurrences(_)
FirstOccurrences(s) ==
    IF s = <<>> THEN <<>>
    ELSE LET front == SubSeq(s, 1, Len(s) - 1)
             last == s[Len(s)]
         IN  IF \E j \in DOMAIN front : front[j] = last
             THEN FirstOccurrences(front)
             ELSE Append(FirstOccurrences(front), last)

\* C1: Idempotent hit.  When handle_transform has returned and is called
\* again on the same batch, nothing having touched the cache in between,
\* the second call never invokes the wrapped unit, writes nothing, does
\* not raise, and returns the outputs the first call returned.
IdempotentHit ==
    (op = "handle_transform" /\ prev.set) =>
        /\ invoked = <<>>
        /\ written = <<>>
        /\ pc # "raise"
        /\ Looping => outputs = SubSeq(prev.outputs, 1, idx - 1)
        /\ pc = "return" => outputs = prev.outputs

IdempotentHitWitness ==
    /\ op = "handle_transform"
    /\ prev.set
    /\ pc = "return"
    /\ Len(outputs) >= 2
    /\ outputs[1] # outputs[2]

\* C2: Fit invalidates.  In handle_fit_transform the flush has completed
\* before the wrapped unit is fitted and before any cache file is written:
\* when fit is about to run the directory is empty and nothing has been
\* transformed or written, and from then on the directory holds only files
\* this call wrote.
FitInvalidates ==
    op = "handle_fit_transform" =>
        /\ pc \in {"fit", "loop", "return"} => flushed
        /\ (written # <<>> \/ invoked # <<>>) => flushed /\ pc # "fit"
        /\ pc = "fit" => files = NoFiles
        /\ Looping => at_loop = NoFiles
        /\ flushed => DOMAIN files \subseteq {PathOf(invoked[k]) : k \in DOMAIN invoked}

FitInvalidatesWitness ==
    /\ op = "handle_fit_transform"
    /\ pc = "fit"
    /\ at_loop # NoFiles
    /\ files = NoFiles

\* C3: Order preservation.  At every point of the per-item loop the outputs
\* list holds, at position k, the output of the k-th data input: the value
\* cached for it when the loop started, or else what the wrapped unit
\* makes of it.
ItemOutput(x) ==
    IF PathOf(x) \in DOMAIN at_loop
    THEN pickle_load(at_loop[PathOf(x)])
    ELSE Transform(wrapped, x)

OrderPreservation ==
    (Looping /\ op \in {"handle_transform", "handle_fit_transform"}) =>
        /\ Len(outputs) = idx - 1
        /\ \A k \in 1..(idx - 1) : <<outputs[k]>> = ItemOutput(batch[k])

\* A hit, a miss and a hit again, the cached value being one an earlier
\* unit left.
OrderPreservationWitness ==
    /\ op = "handle_transform"
    /\ pc = "return"
    /\ Len(batch) >= 3
    /\ PathOf(batch[1]) \in DOMAIN at_loop
    /\ PathOf(batch[2]) \notin DOMAIN at_loop
    /\ PathOf(batch[3]) \in DOMAIN at_loop
    /\ ItemOutput(batch[1]) # Transform(wrapped, batch[1])

\* C4: Write/read round trip.  When write_cache(x, y) has returned,
\* contains_cache_for(x) is true and read_cache(x) returns y, whatever the
\* file of x held before.
WriteReadRoundTrip ==
    (op = "write_cache" /\ pc = "return") =>
        /\ contains_cache_for(checkpoint_path, dir_exists, files, ret.data_input)
        /\ read_cache(checkpoint_path, files, ret.data_input)
              = [status |-> "", value |-> ret.output]

\* The write replaces a readable entry that held another value.
WriteReadRoundTripWitness ==
    /\ op = "write_cache"
    /\ pc = "return"
    /\ PathOf(ret.data_input) \in DOMAIN ret.before
    /\ Loadable(ret.before[PathOf(ret.data_input)])
    /\ pickle_load(ret.before[PathOf(ret.data_input)]) # ret.output

\* C5: Flush completeness.  When flush_cache has returned, the checkpoint
\* directory exists and is empty, and contains_cache_for is false for
\* every data input.
FlushCompleteness ==
    (op = "flush_cache" /\ pc = "return") =>
        /\ dir_exists
        /\ files = NoFiles
        /\ \A x \in Items : ~contains_cache_for(checkpoint_path, dir_exists, files, x)

FlushCompletenessWitness ==
    /\ op = "flush_cache"
    /\ pc = "return"
    /\ Cardinality(DOMAIN ret.before) >= 2

\* C6 as stated: from an empty cache handle_transform invokes the wrapped
\* unit once for each of the Len(batch) items and creates Len(batch) files.
MissAccountingPerPosition ==
    (op = "handle_transform" /\ pc = "return" /\ at_loop = NoFiles) =>
        /\ Len(invoked) = Len(batch)
        /\ Cardinality(DOMAIN files) = Len(batch)

\* C6: Miss accounting.  From an empty cache handle_transform returns the
\* wrapped unit's output for each item, invokes the wrapped unit once for
\* each distinct data input of the batch, in the order of first occurrence,
\* creates one file for each distinct data input, and leaves
\* contains_cache_for true for every item of the batch.
MissAccounting ==
    (op = "handle_transform" /\ pc = "return" /\ at_loop = NoFiles) =>
        /\ Len(outputs) = Len(batch)
        /\ \A k \in DOMAIN batch : <<outputs[k]>> = Transform(wrapped, batch[k])
        /\ invoked = FirstOccurrences(batch)
        /\ written = invoked
        /\ DOMAIN files = {PathOf(batch[k]) : k \in DOMAIN batch}
        /\ Cardinality(DOMAIN files) = Len(invoked)
        /\ \A k \in DOMAIN batch :
              contains_cache_for(checkpoint_path, dir_exists, files, batch[k])

MissAccountingWitness ==
    /\ op = "handle_transform"
    /\ pc = "return"
    /\ at_loop = NoFiles
    /\ Len(batch) >= 3
    /\ Len(invoked) = 2

\* C7 as stated: after the flush of handle_fit_transform the wrapped unit
\* is invoked for every position of the batch and every result is written.
EveryPositionMissesAfterFit ==
    (op = "handle_fit_transform" /\ pc = "return") =>
        /\ invoked = batch
        /\ written = batch

\* C7: after the flush of handle_fit_transform, the loop of the same call
\* misses on a data input at its first occurrence in the batch (the wrapped
\* unit is invoked and the result written) and hits at every later
\* occurrence of the same data input; with pairwise distinct data inputs
\* every position is a miss.
FirstOccurrencesMissAfterFit ==
    (op = "handle_fit_transform" /\ Looping) =>
        /\ invoked = FirstOccurrences(Processed)
        /\ written = invoked
        /\ \A k \in DOMAIN invoked :
              files[PathOf(invoked[k])] = pickle_dump(Transform(wrapped, invoked[k]))
        /\ (Cardinality({batch[k] : k \in DOMAIN batch}) = Len(batch) /\ pc = "return")
              => invoked = batch

FirstOccurrencesMissAfterFitWitness ==
    /\ op = "handle_fit_transform"
    /\ pc = "return"
    /\ Len(batch) >= 3
    /\ batch[1] = batch[3]
    /\ invoked = <<batch[1], batch[2]>>
    /\ batch[1] # batch[2]

\* C8 as stated: a write_cache that fails leaves the entry as it was or
\* absent, and no data input ever has contains_cache_for true with a file
\* read_cache cannot load.
WriteAtomicity ==
    /\ (op = "write_cache" /\ pc = "raise") =>
          \/ PathOf(ret.data_input) \notin DOMAIN files
          \/ /\ PathOf(ret.data_input) \in DOMAIN ret.before
             /\ files[PathOf(ret.data_input)] = ret.before[PathOf(ret.data_input)]
    /\ \A x \in Items :
          (checkpoint_path # NoPath
              /\ contains_cache_for(checkpoint_path, dir_exists, files, x))
          => read_cache(checkpoint_path, files, x).status = ""

\* C9: Corruption is a hard failure.  The loop never gets past a data input
\* whose cache file cannot be loaded, never invokes the wrapped unit for
\* it, and never returns; at that data input the call raises the error of
\* the load, with the file, the outputs and the data container untouched.
Corrupt(x) == PathOf(x) \in DOMAIN at_loop /\ ~Loadable(at_loop[PathOf(x)])

CorruptionIsHardFailure ==
    (op = "handle_transform" /\ checkpoint_path # NoPath) =>
        /\ Looping => \A k \in 1..(idx - 1) : ~Corrupt(batch[k])
        /\ \A k \in DOMAIN invoked : ~Corrupt(invoked[k])
        /\ pc = "return" => \A k \in DOMAIN batch : ~Corrupt(batch[k])
        /\ (pc = "raise" /\ Corrupt(batch[idx])) =>
              /\ error = "UnpicklingError"
              /\ files[PathOf(batch[idx])] = at_loop[PathOf(batch[idx])]
              /\ Len(outputs) = idx - 1
              /\ data_container = DataContainer(batch)

CorruptionIsHardFailureWitness ==
    /\ op = "handle_transform"
    /\ pc = "raise"
    /\ error = "UnpicklingError"
    /\ idx = 2
    /\ invoked = <<batch[1]>>

\* C10 as stated: flush_cache on a checkpoint directory that does not
\* exist succeeds and leaves an existing, empty directory.
FlushToleratesMissingDirectory ==
    (op = "flush_cache" /\ checkpoint_path # NoPath /\ pc \in {"return", "raise"}) =>
        /\ pc = "return"
        /\ error = ""
        /\ dir_exists
        /\ files = NoFiles

\* C11 as stated: once setup has set the path, contains_cache_for(x)
\* returns, changes nothing on disk, and is true exactly when the file of
\* x exists and read_cache(x) can load it.
ContainsIffReadable ==
    (op = "contains_cache_for" /\ checkpoint_path # NoPath /\ pc \in {"return", "raise"}) =>
        /\ pc = "return"
        /\ files = ret.before
        /\ ret.found <=> /\ dir_exists
                         /\ PathOf(ret.data_input) \in DOMAIN files
                         /\ Loadable(files[PathOf(ret.data_input)])

\* C12: Loop failure aborts the call.  An error always ends the handler
\* where it was raised: the data container is as the caller passed it, the
\* outputs so far are not installed, no data input past the failing
\* position has been transformed, written or had its file touched, and the
\* failing statement does not run again.
Upto(n) == {batch[k] : k \in (1..n) \cap DOMAIN batch}

LoopFailureAborts ==
    op \in {"handle_transform", "handle_fit_transform"} =>
        /\ error # "" <=> pc = "raise"
        /\ pc = "raise" =>
              /\ data_container = DataContainer(batch)
              /\ Len(outputs) = idx - 1
              /\ \A k \in DOMAIN invoked : invoked[k] \in Upto(idx)
              /\ \A k \in DOMAIN written : written[k] \in Upto(idx - 1)
              /\ \A x \in Items \ Upto(idx) :
                    \/ flushed /\ PathOf(x) \notin DOMAIN files
                    \/ /\ ~flushed
                       /\ PathOf(x) \in DOMAIN files <=> PathOf(x) \in DOMAIN at_loop
                       /\ PathOf(x) \in DOMAIN files => files[PathOf(x)] = at_loop[PathOf(x)]

\* The write of the second data input fails; the third position is never
\* reached.
LoopFailureAbortsWitness ==
    /\ op = "handle_transform"
    /\ pc = "raise"
    /\ error = "WriteError"
    /\ idx = 2
    /\ Len(batch) = 3
    /\ written = <<batch[1]>>
    /\ invoked = <<batch[1], batch[2]>>
    /\ Len(outputs) = 1

\* C13: Transform-only frame.  All through handle_transform and at its
\* end, whether it returns or raises: no flush has run, no fit has run, the
\* wrapped unit is the unit of the start of the call, and every cache file
\* that was there when the call started is still there with the same bytes.
TransformOnlyFrame ==
    op = "handle_transform" =>
        /\ ~flushed
        /\ ~fitting.done
        /\ wrapped = fitting.before
        /\ \A p \in DOMAIN at_loop : p \in DOMAIN files /\ files[p] = at_loop[p]

\* A handle_transform that returned after a hit on an old entry and a miss.
TransformOnlyFrameWitness ==
    /\ op = "handle_transform"
    /\ pc = "return"
    /\ at_loop # NoFiles
    /\ written # <<>>
    /\ \E k \in DOMAIN batch : PathOf(batch[k]) \in DOMAIN at_loop

\* C14: Expected outputs pass through.  In both handlers the expected
\* outputs of the data container are those the caller passed, at every step
\* and at the return; the container is untouched until the loop is over,
\* and at the return exactly its data inputs and its current ids have been
\* replaced, by the outputs and by the hash of the old ids and the outputs.
ExpectedOutputsPassThrough ==
    op \in {"handle_transform", "handle_fit_transform"} =>
        /\ data_container.expected_outputs = DataContainer(batch).expected_outputs
        /\ pc # "return" => data_container = DataContainer(batch)
        /\ pc = "return" =>
              /\ data_container.data_inputs = outputs
              /\ data_container.current_ids = hash(DataContainer(batch).current_ids, outputs)

\* A handler returned outputs that differ from the expected outputs.
ExpectedOutputsPassThroughWitness ==
    /\ op \in {"handle_transform", "handle_fit_transform"}
    /\ pc = "return"
    /\ Len(batch) >= 2
    /\ data_container.data_inputs # DataContainer(batch).data_inputs
    /\ data_container.current_ids # DataContainer(batch).current_ids
    /\ data_container.expected_outputs # data_container.data_inputs

\* C15: Entry lifecycle, first writer wins.  In every step of the wrapper
\* (the removal of the directory from outside is not one): a cache file
\* that exists before and after the step has the same bytes; a file
\* appears only in a loop step on the data input it belongs to, when
\* contains_cache_for was false for it; and a file disappears only in the
\* flush_cache step, which removes them all.
EntryLifecycle ==
    [][ ~(pc = "idle" /\ dir_exists /\ ~dir_exists') =>
          /\ \A p \in DOMAIN files \cap DOMAIN files' : files'[p] = files[p]
          /\ \A p \in DOMAIN files' \ DOMAIN files :
                /\ InLoop
                /\ p = PathOf(data_input)
                /\ ~contains_cache_for(checkpoint_path, dir_exists, files, data_input)
          /\ (DOMAIN files \ DOMAIN files' # {}) =>
                /\ pc = "flush"
                /\ flushed'
                /\ files' = NoFiles ]_vars

\* The repeat of a handle_transform finds every entry the first call wrote
\* and writes none.
EntryLifecycleWitness ==
    /\ op = "handle_transform"
    /\ pc = "return"
    /\ prev.set
    /\ Len(batch) >= 2
    /\ batch[1] # batch[2]
    /\ written = <<>>
    /\ files = at_loop

\* C17: One invocation per miss, in order, batch size 1.  While the loop
\* runs and when it is over, the data inputs the wrapped unit was invoked
\* on, one per invocation, are exactly the processed data inputs that had
\* no file when the loop reached them, in input order: those without a
\* file at the start of the loop, each at its first position only (its own
\* write makes the later positions hits).  Every invocation has been
\* followed by its write before the next position is looked at.
MissedAtStart(x) == PathOf(x) \notin DOMAIN at_loop

OneInvocationPerMiss ==
    (op \in {"handle_transform", "handle_fit_transform"} /\ Looping /\ checkpoint_path # NoPath) =>
        /\ invoked = FirstOccurrences(SelectSeq(Processed, MissedAtStart))
        /\ written = invoked
        /\ \A k \in DOMAIN written :
              /\ PathOf(written[k]) \in DOMAIN files
              /\ files[PathOf(written[k])] = pickle_dump(Transform(wrapped, written[k]))

\* Miss, hit on an old entry, hit on the entry the first position wrote.
OneInvocationPerMissWitness ==
    /\ op = "handle_transform"
    /\ pc = "return"
    /\ Len(batch) = 3
    /\ batch[3] = batch[1]
    /\ batch[2] # batch[1]
    /\ ~MissedAtStart(batch[2])
    /\ invoked = <<batch[1]>>

FitReplacesUnit ==
    (op = "handle_fit_transform" /\ Looping) =>
        /\ fitting.done
        /\ wrapped = fitting.returned
        /\ \A k \in DOMAIN outputs :
              outputs[k] = Transform(fitting.returned, batch[k])[1]
        /\ \A k \in DOMAIN written :
              files[PathOf(written[k])] = pickle_dump(Transform(fitting.returned, written[k]))

\* fit returned another unit than the one held before, and its outputs
\* differ from those the old one would have given.
FitReplacesUnitWitness ==
    /\ op = "handle_fit_transform"
    /\ pc = "return"
    /\ fitting.returned # fitting.before
    /\ written # <<>>
    /\ outputs[1] # Transform(fitting.before, batch[1])[1]

\* C20: Fit failure is not state-preserving.  When wrapped.fit raises in
\* handle_fit_transform the handler ends with that error, the wrapped unit
\* and the data container are those of the start of the call, and the
\* flush has already run: the directory is there and empty, so no file of
\* before the call is left and contains_cache_for is false for every data
\* input.
FitFailureFlushed ==
    (op = "handle_fit_transform" /\ error = "FitError") =>
        /\ pc = "raise"
        /\ wrapped = fitting.before
        /\ ~fitting.done
        /\ data_container = DataContainer(batch)
        /\ outputs = <<>>
        /\ flushed
        /\ dir_exists
        /\ files = NoFiles
        /\ \A x \in Items : ~contains_cache_for(checkpoint_path, dir_exists, files, x)

\* fit raised on a cache that had entries when the call started.
FitFailureFlushedWitness ==
    /\ op = "handle_fit_transform"
    /\ pc = "raise"
    /\ error = "FitError"
    /\ at_loop # NoFiles
    /\ batch # <<>>

\* Every cache file holds the pickled output of the wrapped unit for the
\* data input it is named after.
Coherent ==
    \A step_path \in StepPaths, x \in Items :
        LET p == get_cache_path_for(create_checkpoint_path(step_path), x)
        IN  p \in DOMAIN files => files[p] = pickle_dump(Transform(wrapped, x))

\* What the wrapped unit gives for a batch, one data input at a time.
RECURSIVE Uncached(_, _)
Uncached(unit, b) ==
    IF b = <<>> THEN <<>>
    ELSE Uncached(unit, SubSeq(b, 1, Len(b) - 1)) \o Transform(unit, b[Len(b)])

\* C19 as stated: Cache coherence.  No step of the wrapper, in a call that
\* succeeds or in one that fails, takes a coherent cache to one that is not
\* coherent; and a handle_transform that returns on a coherent cache
\* returns the outputs of the uncached transform of each data input.
CacheCoherence ==
    [][ Coherent =>
          /\ Coherent'
          /\ (op' = "handle_transform" /\ pc' = "return") =>
                outputs' = Uncached(wrapped', batch') ]_vars

====
